---- MODULE Spec2Model ----
(***************************************************************************)
(* Task manager with version control (src/cliToolsBC.py).                  *)
(*                                                                         *)
(* Two SQLite tables, tasks and tasks_history, and three AFTER triggers    *)
(* that append one tasks_history row for every row inserted into, updated  *)
(* in or deleted from tasks.  Each handler runs its statement inside the   *)
(* implicit transaction of the connection and then calls conn.commit().    *)
(* tasks / tasks_history are the committed tables, as any connection sees  *)
(* them.  A process that dies between its statement and conn.commit()      *)
(* leaves an uncommitted image that SQLite rolls back on the next open.    *)
(* now is the last reading of CURRENT_TIMESTAMP (one-second resolution, so *)
(* several statements may share a reading; the clock is taken not to run   *)
(* backwards).  last is what the last add / update / complete / delete /   *)
(* restore call printed and returned.                                      *)
(***************************************************************************)
EXTENDS Integers, Sequences, FiniteSets, TLC

VARIABLES tasks, tasks_history, now, last

vars == <<tasks, tasks_history, now, last>>

(* ---- bounds ---- *)
MaxHist  == 3        \* rows of tasks_history explored
MaxId    == 2        \* largest task id explored

(* ---- values ---- *)
None    == "None"        \* Python None / SQL NULL
Omitted == "Omitted"     \* a keyword argument the caller leaves out
True    == "True"        \* returned values, as Python prints them
False   == "False"

\* the values the handlers are called with
AddTitles         == {None, "", "Buy milk"}
AddDescriptions   == {"2%"}
AddStatuses       == {Omitted}
AddPriorities     == {Omitted, "high"}
EditTitles        == {None, "A"}
EditDescriptions  == {None}
EditStatuses      == {None, "done"}
EditPriorities    == {None}
ListFilters       == {None, "pending", "completed"}
\* the readings of CURRENT_TIMESTAMP (seconds)
Timestamps        == {0, 1}

TaskIds    == 1..(MaxId + 1)
HistoryIds == 1..(MaxHist + 1)

(* ---- helpers ---- *)
SetMax(S) == CHOOSE m \in S : \A x \in S : x <= m

\* rowid chosen for INTEGER PRIMARY KEY when the statement gives none:
\* one more than the largest rowid now in the table, 1 for an empty table.
NextRowid(ids) == IF ids = {} THEN 1 ELSE SetMax(ids) + 1

HistoryRowIds(hist) == {hist[i].history_id : i \in 1..Len(hist)}

\* (variant: history_id numbers the versions of each task separately)
HistoryRowPerTask(hist, id, row, operation, ts) ==
    [history_id  |-> Cardinality({i \in 1..Len(hist) :
                                    hist[i].task_id = id}) + 1,
     task_id     |-> id,
     title       |-> row.title,
     description |-> row.description,
     status      |-> row.status,
     priority    |-> row.priority,
     operation   |-> operation,
     changed_at  |-> ts]

\* the row a trigger inserts into tasks_history: no history_id is given, so
\* the rowid of INTEGER PRIMARY KEY is chosen
HistoryRow(hist, id, row, operation, ts) ==
    [history_id  |-> NextRowid(HistoryRowIds(hist)),
     task_id     |-> id,
     title       |-> row.title,
     description |-> row.description,
     status      |-> row.status,
     priority    |-> row.priority,
     operation   |-> operation,
     changed_at  |-> ts]

\* (variant: the trigger was copied from the update trigger with its tag)
tasks_insert_trigger_update_tag(hist, id, new, ts) ==
    Append(hist, HistoryRow(hist, id, new, "UPDATE", ts))

\* AFTER INSERT ON tasks: one row with NEW.* and 'INSERT'
tasks_insert_trigger(hist, id, new, ts) ==
    Append(hist, HistoryRow(hist, id, new, "INSERT", ts))

\* (variant: the trigger was copied from the insert trigger with its tag)
tasks_update_trigger_insert_tag(hist, id, new, ts) ==
    Append(hist, HistoryRow(hist, id, new, "INSERT", ts))

\* AFTER UPDATE ON tasks: one row with NEW.* and 'UPDATE'
tasks_update_trigger(hist, id, new, ts) ==
    Append(hist, HistoryRow(hist, id, new, "UPDATE", ts))

\* (variant: the delete trigger is missing)
tasks_delete_trigger_missing(hist, id, old, ts) == hist

\* AFTER DELETE ON tasks: one row with OLD.* and 'DELETE'
tasks_delete_trigger(hist, id, old, ts) ==
    Append(hist, HistoryRow(hist, id, old, "DELETE", ts))

\* the database image a statement works on
Db(t, h) == [tasks |-> t, tasks_history |-> h]

\* INSERT INTO tasks (...) with its trigger
SqlInsert(db, id, title, description, status, priority, ts) ==
    LET new == [title |-> title, description |-> description,
                status |-> status, priority |-> priority,
                created_at |-> ts, updated_at |-> ts]
    IN Db([i \in DOMAIN db.tasks \cup {id} |->
              IF i = id THEN new ELSE db.tasks[i]],
          tasks_insert_trigger(db.tasks_history, id, new, ts))

\* (variant: the update trigger fires only WHEN a logged column changed)
SqlUpdateWhenChanged(db, id, title, description, status, priority, ts) ==
    LET old == db.tasks[id]
        new == [title       |-> IF title = None THEN old.title ELSE title,
                description |-> IF description = None THEN old.description
                                ELSE description,
                status      |-> IF status = None THEN old.status ELSE status,
                priority    |-> IF priority = None THEN old.priority
                                ELSE priority,
                created_at  |-> old.created_at,
                updated_at  |-> ts]
        same == /\ new.title = old.title
                /\ new.description = old.description
                /\ new.status = old.status
                /\ new.priority = old.priority
    IN Db([db.tasks EXCEPT ![id] = new],
          IF same THEN db.tasks_history
          ELSE tasks_update_trigger(db.tasks_history, id, new, ts))

\* (variant: the statement always sets all four columns, the ones not
\* supplied to NULL)
SqlUpdateAllColumns(db, id, title, description, status, priority, ts) ==
    LET old == db.tasks[id]
        new == [title       |-> title,
                description |-> description,
                status      |-> status,
                priority    |-> priority,
                created_at  |-> old.created_at,
                updated_at  |-> ts]
    IN Db([db.tasks EXCEPT ![id] = new],
          tasks_update_trigger(db.tasks_history, id, new, ts))

\* UPDATE tasks SET <supplied columns>, updated_at = CURRENT_TIMESTAMP
\* WHERE id = ?  with its trigger; None marks a column not in the SET list
SqlUpdate(db, id, title, description, status, priority, ts) ==
    LET old == db.tasks[id]
        new == [title       |-> IF title = None THEN old.title ELSE title,
                description |-> IF description = None THEN old.description
                                ELSE description,
                status      |-> IF status = None THEN old.status ELSE status,
                priority    |-> IF priority = None THEN old.priority
                                ELSE priority,
                created_at  |-> old.created_at,
                updated_at  |-> ts]
    IN Db([db.tasks EXCEPT ![id] = new],
          tasks_update_trigger(db.tasks_history, id, new, ts))

\* (variant: the history rows of the task go with it, as ON DELETE CASCADE
\* on the foreign key would have it)
SqlDeleteCascade(db, id, ts) ==
    Db([i \in DOMAIN db.tasks \ {id} |-> db.tasks[i]],
       tasks_delete_trigger(
          SelectSeq(db.tasks_history, LAMBDA r : r.task_id # id),
          id, db.tasks[id], ts))

\* (variant: the WHERE clause is missing; every row is deleted, in rowid
\* order, and the trigger fires for each)
RECURSIVE DeleteRows(_, _, _)
DeleteRows(db, ids, ts) ==
    IF ids = {} THEN db
    ELSE LET i == CHOOSE m \in ids : \A x \in ids : m <= x
         IN DeleteRows(
               Db([j \in DOMAIN db.tasks \ {i} |-> db.tasks[j]],
                  tasks_delete_trigger(db.tasks_history, i, db.tasks[i],
                                       ts)),
               ids \ {i}, ts)
SqlDeleteNoWhere(db, id, ts) == DeleteRows(db, DOMAIN db.tasks, ts)

\* DELETE FROM tasks WHERE id = ?  with its trigger
SqlDelete(db, id, ts) ==
    Db([i \in DOMAIN db.tasks \ {id} |-> db.tasks[i]],
       tasks_delete_trigger(db.tasks_history, id, db.tasks[id], ts))

\* conn.commit(): the whole image of the transaction becomes durable
Commit(db) == db

\* what the last call printed and returned
Result(call, msg, ret) == [call |-> call, msg |-> msg, ret |-> ret]

\* (variant: the write to tasks outlives the crash, the trigger's row does
\* not)
RollbackTasksKept(before, txn) == Db(txn.tasks, before.tasks_history)

\* the process died before conn.commit(): the next sqlite3.connect finds the
\* hot journal and restores the image from before the transaction
Rollback(before, txn) == before

\* the program was started again after it died inside a handler
Restarted == Result("initialize_task_manager", "restarted after crash", None)

\* the clock does not run backwards
Clock(ts) == ts >= now

\* the handler runs its statement at some reading ts of the clock (stmt[ts]
\* is the image the statement leaves); either conn.commit() is reached, or
\* the process dies first and the next start sees what Rollback leaves
Finish(stmt, res) ==
    \E ts \in Timestamps, survives \in BOOLEAN :
       LET out == IF survives THEN Commit(stmt[ts])
                  ELSE Rollback(Db(tasks, tasks_history), stmt[ts])
       IN /\ Clock(ts)
          /\ now' = ts
          /\ tasks' = out.tasks
          /\ tasks_history' = out.tasks_history
          /\ last' = IF survives THEN res ELSE Restarted

\* a handler that returns (or raises) without writing
Return(res) ==
    /\ last' = res
    /\ UNCHANGED <<tasks, tasks_history, now>>

Init ==
    /\ tasks = << >>
    /\ tasks_history = << >>
    /\ now = 0
    /\ last = Result("initialize_task_manager", "", None)

(* ---- handlers ---- *)
add_task(title, description, status, priority) ==
    /\ NextRowid(DOMAIN tasks) <= MaxId
    /\ LET st == IF status = Omitted THEN "pending" ELSE status
           pr == IF priority = Omitted THEN "medium" ELSE priority
           id == NextRowid(DOMAIN tasks)
           stmt == [ts \in Timestamps |->
                      SqlInsert(Db(tasks, tasks_history), id, title,
                                description, st, pr, ts)]
       IN IF title = None
          THEN \* NOT NULL constraint failed: tasks.title; nothing written,
               \* the exception leaves the handler
               Return(Result("add_task", "IntegrityError", None))
          ELSE Finish(stmt,
                      Result("add_task", "added successfully", ToString(id)))

\* (variant: the check for an empty update is missing, the statement sets
\* updated_at alone)
UpdateBodyUnchecked(call, task_id, title, description, status, priority) ==
    LET stmt == [ts \in Timestamps |->
                   SqlUpdate(Db(tasks, tasks_history), task_id, title,
                             description, status, priority, ts)]
    IN IF task_id \notin DOMAIN tasks
       THEN Return(Result(call, "No task found", False))
       ELSE Finish(stmt, Result(call, "updated successfully", True))

\* update_task, under the name of the handler the caller used
UpdateBody(call, task_id, title, description, status, priority) ==
    LET stmt == [ts \in Timestamps |->
                   SqlUpdate(Db(tasks, tasks_history), task_id, title,
                             description, status, priority, ts)]
    IN IF task_id \notin DOMAIN tasks
       THEN Return(Result(call, "No task found", False))
       ELSE IF title = None /\ description = None /\ status = None
               /\ priority = None
       THEN Return(Result(call, "No updates provided", False))
       ELSE Finish(stmt, Result(call, "updated successfully", True))

update_task(task_id, title, description, status, priority) ==
    UpdateBody("update_task", task_id, title, description, status, priority)

\* (variant: complete_task runs its own UPDATE instead of calling
\* update_task; the check that the task exists is missing, and an UPDATE of
\* no row changes nothing)
complete_task_own_update(task_id) ==
    LET stmt == [ts \in Timestamps |->
                   SqlUpdate(Db(tasks, tasks_history), task_id, None, None,
                             "completed", None, ts)]
    IN IF task_id \notin DOMAIN tasks
       THEN Return(Result("complete_task", "updated successfully", True))
       ELSE Finish(stmt,
                   Result("complete_task", "updated successfully", True))

\* return update_task(conn, task_id, status='completed')
complete_task(task_id) ==
    UpdateBody("complete_task", task_id, None, None, "completed", None)

\* (variant: the existence check is missing; DELETE of no row changes
\* nothing and fires no trigger)
delete_task_unchecked(task_id) ==
    LET stmt == [ts \in Timestamps |->
                   SqlDelete(Db(tasks, tasks_history), task_id, ts)]
    IN IF task_id \notin DOMAIN tasks
       THEN Return(Result("delete_task", "deleted successfully", True))
       ELSE Finish(stmt, Result("delete_task", "deleted successfully", True))

delete_task(task_id) ==
    LET stmt == [ts \in Timestamps |->
                   SqlDelete(Db(tasks, tasks_history), task_id, ts)]
    IN IF task_id \notin DOMAIN tasks
       THEN Return(Result("delete_task", "No task found", False))
       ELSE Finish(stmt, Result("delete_task", "deleted successfully", True))

HistoryIndex(hist, history_id) ==
    {i \in 1..Len(hist) : hist[i].history_id = history_id}

\* SELECT ... FROM tasks_history WHERE history_id = ?  (fetchone)
HistoryRecord(hist, history_id) ==
    hist[CHOOSE i \in HistoryIndex(hist, history_id) : TRUE]

\* (variant: the branch that recreates a deleted task is missing; UPDATE of
\* no row changes nothing)
RestoreUpdateOnly(db, r, ts) ==
    IF r.task_id \notin DOMAIN db.tasks
    THEN db
    ELSE SqlUpdate(db, r.task_id, r.title, r.description, r.status,
                   r.priority, ts)

\* (variant: one INSERT OR REPLACE for both branches)
RestoreReplace(db, r, ts) ==
    SqlInsert(db, r.task_id, r.title, r.description, r.status, r.priority,
              ts)

\* (variant: the recreating INSERT leaves the status column out, so the
\* column default applies)
RestoreDefaultStatus(db, r, ts) ==
    IF r.task_id \notin DOMAIN db.tasks
    THEN SqlInsert(db, r.task_id, r.title, r.description, "pending",
                   r.priority, ts)
    ELSE SqlUpdate(db, r.task_id, r.title, r.description, r.status,
                   r.priority, ts)

\* (variant: the UPDATE is skipped when the task already has the values of
\* the record)
RestoreSkipUnchanged(db, r, ts) ==
    IF r.task_id \notin DOMAIN db.tasks
    THEN SqlInsert(db, r.task_id, r.title, r.description, r.status,
                   r.priority, ts)
    ELSE IF /\ db.tasks[r.task_id].title = r.title
            /\ db.tasks[r.task_id].description = r.description
            /\ db.tasks[r.task_id].status = r.status
            /\ db.tasks[r.task_id].priority = r.priority
    THEN db
    ELSE SqlUpdate(db, r.task_id, r.title, r.description, r.status,
                   r.priority, ts)

\* the statement restore_task_version runs for the record r: INSERT with
\* the record's task_id when no such task is left, UPDATE of all four
\* columns otherwise
RestoreStatement(db, r, ts) ==
    IF r.task_id \notin DOMAIN db.tasks
    THEN SqlInsert(db, r.task_id, r.title, r.description, r.status,
                   r.priority, ts)
    ELSE SqlUpdate(db, r.task_id, r.title, r.description, r.status,
                   r.priority, ts)

restore_task_version(history_id) ==
    LET stmt == [ts \in Timestamps |->
                   RestoreStatement(Db(tasks, tasks_history),
                                    HistoryRecord(tasks_history, history_id),
                                    ts)]
    IN IF HistoryIndex(tasks_history, history_id) = {}
       THEN Return(Result("restore_task_version", "No history record found",
                          False))
       ELSE Finish(stmt, Result("restore_task_version", "restored", True))

SetMin(S) == CHOOSE m \in S : \A x \in S : m <= x

RECURSIVE AscSeq(_)
AscSeq(S) == IF S = {} THEN << >>
             ELSE <<SetMin(S)>> \o AscSeq(S \ {SetMin(S)})

\* SELECT ... FROM tasks [WHERE status = ?] ORDER BY id ASC
SelectTasks(t, filter_status) ==
    LET ids == AscSeq({i \in DOMAIN t :
                         filter_status = None \/ t[i].status = filter_status})
    IN [k \in 1..Len(ids) |->
          [id |-> ids[k], title |-> t[ids[k]].title,
           description |-> t[ids[k]].description,
           status |-> t[ids[k]].status, priority |-> t[ids[k]].priority,
           created_at |-> t[ids[k]].created_at,
           updated_at |-> t[ids[k]].updated_at]]

\* the rows are printed; nothing is stored or returned
list_tasks(filter_status) ==
    LET rows == SelectTasks(tasks, filter_status)
    IN UNCHANGED <<tasks, tasks_history, now, last>>

\* SELECT ... FROM tasks_history WHERE task_id = ? ORDER BY changed_at ASC:
\* every order of the matching rows that the ORDER BY term allows
get_task_history(hist, task_id) ==
    LET match == {i \in 1..Len(hist) : hist[i].task_id = task_id}
        n == Cardinality(match)
        orders == {f \in [1..n -> match] :
                     /\ \A j, k \in 1..n : j # k => f[j] # f[k]
                     /\ \A j, k \in 1..n : j < k =>
                           hist[f[j]].changed_at <= hist[f[k]].changed_at}
    IN {[j \in 1..n |-> hist[f[j]]] : f \in orders}

display_task_history(task_id) ==
    \E history \in get_task_history(tasks_history, task_id) :
       UNCHANGED <<tasks, tasks_history, now, last>>

\* the explored log is bounded
Room == Len(tasks_history') <= MaxHist

Next ==
    \/ \E t \in AddTitles, d \in AddDescriptions, s \in AddStatuses,
          p \in AddPriorities : add_task(t, d, s, p) /\ Room
    \/ \E id \in TaskIds, t \in EditTitles, d \in EditDescriptions,
          s \in EditStatuses, p \in EditPriorities :
          update_task(id, t, d, s, p) /\ Room
    \/ \E id \in TaskIds : complete_task(id) /\ Room
    \/ \E id \in TaskIds : delete_task(id) /\ Room
    \/ \E hid \in HistoryIds : restore_task_version(hid) /\ Room
    \/ \E f \in ListFilters : list_tasks(f)
    \/ \E id \in TaskIds : display_task_history(id)

Spec == Init /\ [][Next]_vars

(* ---- the session of the specification's worked example ---- *)
ScenarioHist == 4    \* rows of tasks_history explored in that session

ScenarioRoom == Len(tasks_history') <= ScenarioHist

\* the menu loop driven with the values of the example: add "Buy milk",
\* mark a task completed (through update_task or through complete_task),
\* delete a task, restore a version
ScenarioNext ==
    \/ add_task("Buy milk", "2%", Omitted, "high") /\ ScenarioRoom
    \/ \E id \in TaskIds :
          update_task(id, None, None, "completed", None) /\ ScenarioRoom
    \/ \E id \in TaskIds : complete_task(id) /\ ScenarioRoom
    \/ \E id \in TaskIds : delete_task(id) /\ ScenarioRoom
    \/ \E hid \in 1..(ScenarioHist + 1) :
          restore_task_version(hid) /\ ScenarioRoom

ScenarioSpec == Init /\ [][ScenarioNext]_vars

(***************************************************************************)
(* Properties                                                              *)
(***************************************************************************)
Snapshot(r) == [title |-> r.title, description |-> r.description,
                status |-> r.status, priority |-> r.priority]
Newest(hist) == hist[Len(hist)]
IsPrefix(s, t) == Len(s) <= Len(t) /\ SubSeq(t, 1, Len(s)) = s
AppendedOne ==
    /\ Len(tasks_history') = Len(tasks_history) + 1
    /\ IsPrefix(tasks_history, tasks_history')

\* C1 (P1, append-on-mutate): a step in which add_task, update_task,
\* complete_task or delete_task returns success appends exactly one history
\* record; its task_id and snapshot are those of the entity as the step
\* leaves it (for a delete: as it was before the step), and for add_task the
\* task_id is the returned id.
C1_AppendOnMutate ==
    [][ /\ last'.msg \in {"added successfully", "updated successfully"} =>
             /\ AppendedOne
             /\ Newest(tasks_history').task_id \in DOMAIN tasks'
             /\ Snapshot(Newest(tasks_history')) =
                   Snapshot(tasks'[Newest(tasks_history').task_id])
        /\ last'.msg = "added successfully" =>
             ToString(Newest(tasks_history').task_id) = last'.ret
        /\ last'.msg = "deleted successfully" =>
             /\ AppendedOne
             /\ Newest(tasks_history').task_id \in DOMAIN tasks
             /\ Newest(tasks_history').task_id \notin DOMAIN tasks'
             /\ Snapshot(Newest(tasks_history')) =
                   Snapshot(tasks[Newest(tasks_history').task_id])
      ]_vars

\* an update whose values equal the current ones has been logged
C1_Witness ==
    /\ last.msg = "updated successfully"
    /\ Len(tasks_history) >= 2
    /\ Newest(tasks_history).task_id =
          tasks_history[Len(tasks_history) - 1].task_id
    /\ Snapshot(Newest(tasks_history)) =
          Snapshot(tasks_history[Len(tasks_history) - 1])
    /\ tasks_history[Len(tasks_history) - 1].operation # "DELETE"

HistoryOf(hist, id) == {i \in 1..Len(hist) : hist[i].task_id = id}
\* the record of task id with the highest history_id
LatestOf(hist, id) ==
    hist[CHOOSE i \in HistoryOf(hist, id) :
            \A j \in HistoryOf(hist, id) :
               hist[j].history_id <= hist[i].history_id]
LoggedIds(hist) == {hist[i].task_id : i \in 1..Len(hist)}

\* C2 (log faithfulness): a live entity has history, its four fields equal
\* those of its record with the highest history_id, and that record is not a
\* DELETE; an id with history but no live entity has a DELETE as its record
\* with the highest history_id.
C2_LogFaithful ==
    \A id \in DOMAIN tasks \cup LoggedIds(tasks_history) :
       /\ id \in LoggedIds(tasks_history)
       /\ id \in DOMAIN tasks =>
            /\ Snapshot(LatestOf(tasks_history, id)) = Snapshot(tasks[id])
            /\ LatestOf(tasks_history, id).operation # "DELETE"
       /\ id \notin DOMAIN tasks =>
            LatestOf(tasks_history, id).operation = "DELETE"

\* one entity is live with its history, another was deleted
C2_Witness ==
    /\ \E id \in DOMAIN tasks : Cardinality(HistoryOf(tasks_history, id)) >= 1
    /\ \E id \in LoggedIds(tasks_history) : id \notin DOMAIN tasks

\* C3 (P3, log immutability): every step leaves the old log as a prefix of
\* the new one: no record is removed or changed, the length never decreases.
C3_LogImmutable == [][IsPrefix(tasks_history, tasks_history')]_vars

\* an entity with two records was deleted and its records are still there
C3_Witness ==
    /\ last.msg = "deleted successfully"
    /\ Len(tasks_history) = 3
    /\ Newest(tasks_history).task_id \notin DOMAIN tasks
    /\ Cardinality(HistoryOf(tasks_history,
                             Newest(tasks_history).task_id)) = 3

\* a step changed the tasks table as the history record r describes and
\* touched no other row
Describes(r, before, after) ==
    /\ \A j \in (DOMAIN before \cup DOMAIN after) \ {r.task_id} :
          j \in DOMAIN before /\ j \in DOMAIN after /\ after[j] = before[j]
    /\ r.operation = "INSERT" =>
          /\ r.task_id \notin DOMAIN before /\ r.task_id \in DOMAIN after
          /\ Snapshot(after[r.task_id]) = Snapshot(r)
    /\ r.operation = "UPDATE" =>
          /\ r.task_id \in DOMAIN before /\ r.task_id \in DOMAIN after
          /\ Snapshot(after[r.task_id]) = Snapshot(r)
    /\ r.operation = "DELETE" =>
          /\ r.task_id \in DOMAIN before /\ r.task_id \notin DOMAIN after
          /\ Snapshot(before[r.task_id]) = Snapshot(r)

\* C4 (atomicity): whenever the committed tasks table or the committed log
\* differs across a step, both halves are there: exactly one record was
\* appended and it describes the change of the tasks table; a handler that
\* dies between its statement and the commit changes neither.
C4_Atomic ==
    [][ /\ (tasks' # tasks \/ tasks_history' # tasks_history) =>
             /\ AppendedOne
             /\ Describes(Newest(tasks_history'), tasks, tasks')
        /\ last' = Restarted =>
             tasks' = tasks /\ tasks_history' = tasks_history
      ]_vars

\* a handler died before its commit while the store already held data
C4_Witness ==
    /\ last = Restarted
    /\ Len(tasks_history) >= 1
    /\ now = 1
    /\ Newest(tasks_history).changed_at = 0

\* C5 (create validates the title): an add_task call with an empty title
\* leaves the store and the log as they were and does not report success.
C5_EmptyTitleRejected ==
    [][ (\E d \in AddDescriptions, s \in AddStatuses, p \in AddPriorities :
            add_task("", d, s, p))
        => /\ tasks' = tasks
           /\ tasks_history' = tasks_history
           /\ last'.msg # "added successfully"
      ]_vars

\* C6 (ids are not reused by create): the id a successful add_task returns
\* is the task_id of no record already in the log, that is, it was never
\* given to an entity before.
C6_IdNeverReused ==
    [][ (last'.call = "add_task" /\ last'.msg = "added successfully")
        => \A i \in 1..Len(tasks_history) :
              ToString(tasks_history[i].task_id) # last'.ret
      ]_vars

\* C7 (P4, restore resurrection): restore_task_version on a record whose
\* task_id has no live entity returns success, the entity is there again
\* under that task_id with the record's four fields, and exactly one
\* history record is appended.
C7_RestoreResurrects ==
    [][ \A hid \in HistoryIds :
          ( /\ last'.call = "restore_task_version"
            /\ HistoryIndex(tasks_history, hid) # {}
            /\ HistoryRecord(tasks_history, hid).task_id \notin DOMAIN tasks
            /\ restore_task_version(hid) )
          => LET r == HistoryRecord(tasks_history, hid)
             IN /\ last'.ret = True
                /\ r.task_id \in DOMAIN tasks'
                /\ Snapshot(tasks'[r.task_id]) = Snapshot(r)
                /\ AppendedOne
      ]_vars

\* created, deleted, restored from the INSERT record
C7_Witness ==
    /\ last.msg = "restored"
    /\ Len(tasks_history) = 3
    /\ tasks_history[1].operation = "INSERT"
    /\ tasks_history[2].operation = "DELETE"
    /\ tasks_history[3].operation = "INSERT"
    /\ tasks_history[2].task_id = tasks_history[1].task_id
    /\ tasks_history[3].task_id = tasks_history[1].task_id
    /\ tasks_history[1].task_id \in DOMAIN tasks
    /\ Snapshot(tasks[tasks_history[1].task_id]) = Snapshot(tasks_history[1])

\* C8 (P5, restore in place): restore_task_version on a record whose task
\* is live overwrites the four fields of that task with the record's, keeps
\* the set of ids, and appends exactly one record, an UPDATE of that task.
C8_RestoreInPlace ==
    [][ \A hid \in HistoryIds :
          ( /\ last'.call = "restore_task_version"
            /\ HistoryIndex(tasks_history, hid) # {}
            /\ HistoryRecord(tasks_history, hid).task_id \in DOMAIN tasks
            /\ restore_task_version(hid) )
          => LET r == HistoryRecord(tasks_history, hid)
             IN /\ DOMAIN tasks' = DOMAIN tasks
                /\ Snapshot(tasks'[r.task_id]) = Snapshot(r)
                /\ AppendedOne
                /\ Newest(tasks_history').operation = "UPDATE"
                /\ Newest(tasks_history').task_id = r.task_id
      ]_vars

\* title changed, then restored to the first record: the old title is back
C8_Witness ==
    /\ last.msg = "restored"
    /\ Len(tasks_history) = 3
    /\ tasks_history[1].operation = "INSERT"
    /\ tasks_history[2].operation = "UPDATE"
    /\ tasks_history[3].operation = "UPDATE"
    /\ tasks_history[2].task_id = tasks_history[1].task_id
    /\ tasks_history[3].task_id = tasks_history[1].task_id
    /\ tasks_history[2].title # tasks_history[1].title
    /\ tasks[tasks_history[1].task_id].title = tasks_history[1].title

\* C9 (NotFound changes nothing): update_task, complete_task and delete_task
\* on an id with no live entity, and restore_task_version on a history_id
\* not in the log, return False and leave the store and the log unchanged.
C9_NotFoundNoChange ==
    [][ /\ \A id \in TaskIds :
             ( /\ id \notin DOMAIN tasks
               /\ \/ /\ last'.call = "update_task"
                     /\ \E t \in EditTitles, d \in EditDescriptions,
                           s \in EditStatuses, p \in EditPriorities :
                           update_task(id, t, d, s, p)
                  \/ last'.call = "complete_task" /\ complete_task(id)
                  \/ last'.call = "delete_task" /\ delete_task(id) )
             => /\ tasks' = tasks
                /\ tasks_history' = tasks_history
                /\ last'.ret = False
        /\ \A hid \in HistoryIds :
             ( /\ last'.call = "restore_task_version"
               /\ HistoryIndex(tasks_history, hid) = {}
               /\ restore_task_version(hid) )
             => /\ tasks' = tasks
                /\ tasks_history' = tasks_history
                /\ last'.ret = False
      ]_vars

\* a delete of an id that is not (or no longer) there was refused
C9_Witness ==
    /\ last.call = "delete_task"
    /\ last.msg = "No task found"
    /\ last.ret = False
    /\ Len(tasks_history) >= 1

\* C10 (P2, no-op silence): update_task with none of title, description,
\* status, priority supplied returns False and leaves the log and the store
\* (updated_at included) unchanged, whether or not the id exists.
C10_NoOpSilent ==
    [][ \A id \in TaskIds :
          (last'.call = "update_task"
           /\ update_task(id, None, None, None, None))
          => /\ tasks' = tasks
             /\ tasks_history' = tasks_history
             /\ last'.ret = False
      ]_vars

\* an empty update of a live task was refused at a time when a refreshed
\* updated_at would differ from the stored one
C10_Witness ==
    /\ last.call = "update_task"
    /\ last.msg = "No updates provided"
    /\ DOMAIN tasks # {}
    /\ \A id \in DOMAIN tasks : tasks[id].updated_at < now

\* the records of a returned history, as a set
Records(h) == {h[j] : j \in 1..Len(h)}

Milk(st) == [title |-> "Buy milk", description |-> "2%", status |-> st,
             priority |-> "high"]
\* the log holds exactly the records ops of the example's task, with status
\* sts, all of task 1, numbered from 1
LogOfTask1(ops, sts) ==
    /\ Len(tasks_history) = Len(ops)
    /\ \A i \in 1..Len(ops) : /\ tasks_history[i].operation = ops[i]
                              /\ Snapshot(tasks_history[i]) = Milk(sts[i])
                              /\ tasks_history[i].task_id = 1
                              /\ tasks_history[i].history_id = i
\* the stages of the example
Stage0 == tasks = << >> /\ tasks_history = << >>
Stage1 ==
    /\ DOMAIN tasks = {1} /\ Snapshot(tasks[1]) = Milk("pending")
    /\ LogOfTask1(<<"INSERT">>, <<"pending">>)
Stage2 ==
    /\ DOMAIN tasks = {1} /\ Snapshot(tasks[1]) = Milk("completed")
    /\ LogOfTask1(<<"INSERT", "UPDATE">>, <<"pending", "completed">>)
Stage3 ==
    /\ DOMAIN tasks = {}
    /\ LogOfTask1(<<"INSERT", "UPDATE", "DELETE">>,
                  <<"pending", "completed", "completed">>)
Stage4 ==
    /\ DOMAIN tasks = {1} /\ Snapshot(tasks[1]) = Milk("completed")
    /\ Len(tasks_history) = 4
    /\ \A i \in 1..4 : tasks_history[i].task_id = 1

\* C12 (end-to-end example): on an empty store add_task("Buy milk", "2%",
\* priority "high") returns id 1; then update_task(1, status "completed")
\* leaves exactly the records INSERT, UPDATE of task 1; then delete_task(1)
\* leaves 3 records and no task 1; then restore_task_version on the UPDATE
\* record recreates task 1 with title "Buy milk", description "2%", status
\* "completed", priority "high" and leaves exactly 4 records, all of task 1.
C12_Scenario ==
    [][ /\ ( /\ Stage0 /\ last'.call = "add_task"
             /\ add_task("Buy milk", "2%", Omitted, "high") )
           => last'.ret = "1" /\ Stage1'
        /\ ( /\ Stage1 /\ last'.call = "update_task"
             /\ update_task(1, None, None, "completed", None) )
           => last'.ret = True /\ Stage2'
        /\ ( /\ Stage2 /\ last'.call = "delete_task" /\ delete_task(1) )
           => last'.ret = True /\ Stage3'
        /\ ( /\ Stage3 /\ last'.call = "restore_task_version"
             /\ restore_task_version(tasks_history[2].history_id) )
           => last'.ret = True /\ Stage4'
      ]_vars

\* the example has run to its end
C12_Witness ==
    /\ Stage4
    /\ last = Result("restore_task_version", "restored", True)
    /\ tasks_history[1].operation = "INSERT"
    /\ Snapshot(tasks_history[1]) = Milk("pending")
    /\ tasks_history[2].operation = "UPDATE"
    /\ Snapshot(tasks_history[2]) = Milk("completed")
    /\ tasks_history[3].operation = "DELETE"
    /\ Snapshot(tasks_history[4]) = Milk("completed")

\* C13 (operation tagging): the record appended by a successful add_task
\* has operation INSERT, by a successful update_task or complete_task
\* UPDATE, by a successful delete_task DELETE; the DELETE record carries the
\* four fields the task had just before the step, and after the step the
\* task is absent from the store.
C13_OperationTag ==
    [][ /\ (last'.call = "add_task" /\ last'.msg = "added successfully")
           => AppendedOne /\ Newest(tasks_history').operation = "INSERT"
        /\ ( /\ last'.call \in {"update_task", "complete_task"}
             /\ last'.msg = "updated successfully" )
           => AppendedOne /\ Newest(tasks_history').operation = "UPDATE"
        /\ \A id \in TaskIds :
             ( /\ last'.call = "delete_task"
               /\ last'.msg = "deleted successfully"
               /\ delete_task(id) )
             => /\ AppendedOne
                /\ Newest(tasks_history').operation = "DELETE"
                /\ Newest(tasks_history').task_id = id
                /\ Snapshot(Newest(tasks_history')) = Snapshot(tasks[id])
                /\ id \notin DOMAIN tasks'
      ]_vars

\* a task was added, completed and deleted: the log shows the three tags
C13_Witness ==
    /\ last.call = "delete_task" /\ last.msg = "deleted successfully"
    /\ Len(tasks_history) = 3
    /\ tasks_history[1].operation = "INSERT"
    /\ tasks_history[2].operation = "UPDATE"
    /\ tasks_history[2].status = "completed"
    /\ tasks_history[3].operation = "DELETE"
    /\ tasks_history[3].status = "completed"
    /\ tasks = << >>

\* C14 (history_id increases): every step leaves the log with history_ids
\* strictly increasing in append order (hence unique), and every record a
\* step appends has a history_id greater than that of every record that was
\* in the log before the step, also after deletes and restores.
C14_HistoryIdIncreasing ==
    [][ /\ \A i, j \in 1..Len(tasks_history') : i < j =>
              tasks_history'[i].history_id < tasks_history'[j].history_id
        /\ \A i \in (Len(tasks_history) + 1)..Len(tasks_history') :
              \A j \in 1..Len(tasks_history) :
                 tasks_history[j].history_id < tasks_history'[i].history_id
      ]_vars

\* a task was deleted and add_task gave its id out again: the new record
\* has a new history_id all the same
C14_Witness ==
    /\ last.call = "add_task" /\ last.msg = "added successfully"
    /\ Len(tasks_history) = 3
    /\ tasks_history[2].operation = "DELETE"
    /\ tasks_history[3].operation = "INSERT"
    /\ tasks_history[3].task_id = tasks_history[2].task_id
    /\ tasks_history[3].history_id = 3

\* the value a column has after an update that supplies v (None: not
\* supplied)
Applied(v, old) == IF v = None THEN old ELSE v

\* C15 (partial update frame): a successful update_task(id, fields) sets
\* exactly the supplied ones of title, description, status, priority to the
\* supplied values and leaves the other ones, the id and created_at as they
\* were; updated_at is refreshed; the one record appended is an UPDATE of
\* that id holding all four fields as the step leaves them.
C15_PartialUpdate ==
    [][ \A id \in TaskIds, t \in EditTitles, d \in EditDescriptions,
           s \in EditStatuses, p \in EditPriorities :
          ( /\ last'.call = "update_task"
            /\ last'.msg = "updated successfully"
            /\ update_task(id, t, d, s, p) )
          => /\ DOMAIN tasks' = DOMAIN tasks
             /\ tasks'[id].title = Applied(t, tasks[id].title)
             /\ tasks'[id].description = Applied(d, tasks[id].description)
             /\ tasks'[id].status = Applied(s, tasks[id].status)
             /\ tasks'[id].priority = Applied(p, tasks[id].priority)
             /\ tasks'[id].created_at = tasks[id].created_at
             /\ tasks'[id].updated_at = now'
             /\ AppendedOne
             /\ Newest(tasks_history').operation = "UPDATE"
             /\ Newest(tasks_history').task_id = id
             /\ Snapshot(Newest(tasks_history')) = Snapshot(tasks'[id])
      ]_vars

\* a task had its status changed and then its title: the last record holds
\* the new title together with the status, description and priority that
\* the last update did not supply, and created_at is older than updated_at
C15_Witness ==
    /\ last.call = "update_task" /\ last.msg = "updated successfully"
    /\ Len(tasks_history) = 3
    /\ tasks_history[2].operation = "UPDATE"
    /\ tasks_history[2].status = "done"
    /\ tasks_history[2].title = "Buy milk"
    /\ tasks_history[3].operation = "UPDATE"
    /\ tasks_history[3].task_id = tasks_history[2].task_id
    /\ Snapshot(tasks_history[3]) =
          [title |-> "A", description |-> "2%", status |-> "done",
           priority |-> "high"]
    /\ tasks[tasks_history[3].task_id].created_at = 0
    /\ tasks[tasks_history[3].task_id].updated_at = 1

\* C16 (complete_task is update_task with status "completed"): from every
\* reachable state and for every id, live or not, whatever a call of
\* complete_task(id) prints, returns and leaves in the store and the log,
\* update_task(id, status "completed") can print, return and leave as
\* well, and the other way round.
C16_CompleteIsUpdate ==
    [][ \A id \in TaskIds :
          /\ (last'.call = "complete_task" /\ complete_task(id))
             => \E t \in {tasks'}, h \in {tasks_history'}, n \in {now'},
                   m \in {last'.msg}, r \in {last'.ret} :
                   ENABLED ( /\ update_task(id, None, None, "completed", None)
                             /\ tasks' = t /\ tasks_history' = h
                             /\ now' = n
                             /\ last'.msg = m /\ last'.ret = r )
          /\ ( /\ last'.call = "update_task"
               /\ update_task(id, None, None, "completed", None) )
             => \E t \in {tasks'}, h \in {tasks_history'}, n \in {now'},
                   m \in {last'.msg}, r \in {last'.ret} :
                   ENABLED ( /\ complete_task(id)
                             /\ tasks' = t /\ tasks_history' = h
                             /\ now' = n
                             /\ last'.msg = m /\ last'.ret = r )
      ]_vars

\* a task was completed through complete_task, and a later call of
\* complete_task for an id that is not there was refused
C16_Witness ==
    /\ last = Result("complete_task", "No task found", False)
    /\ \E i \in 1..Len(tasks_history) :
          /\ tasks_history[i].operation = "UPDATE"
          /\ tasks_history[i].status = "completed"
          /\ i > 1 /\ tasks_history[i - 1].status = "pending"

Statuses   == {"pending", "in-progress", "completed"}
Priorities == {"low", "medium", "high"}

\* C17 (enum typing): in every reachable state every live task and every
\* history record has its status among pending, in-progress, completed and
\* its priority among low, medium, high, whatever values the callers
\* passed.
C17_EnumTyped ==
    /\ \A id \in DOMAIN tasks : /\ tasks[id].status \in Statuses
                                /\ tasks[id].priority \in Priorities
    /\ \A i \in 1..Len(tasks_history) :
          /\ tasks_history[i].status \in Statuses
          /\ tasks_history[i].priority \in Priorities

\* the operations of the records of task id, in history_id order
RECURSIVE OpsFrom(_, _, _)
OpsFrom(hist, id, i) ==
    IF i > Len(hist) THEN << >>
    ELSE IF hist[i].task_id = id
         THEN <<hist[i].operation>> \o OpsFrom(hist, id, i + 1)
         ELSE OpsFrom(hist, id, i + 1)
OpsOf(hist, id) == OpsFrom(hist, id, 1)

\* ops matches (INSERT UPDATE* DELETE)* (INSERT UPDATE*)?
Lifecycle(ops) ==
    /\ ops # << >> => ops[1] = "INSERT"
    /\ \A k \in 1..(Len(ops) - 1) :
          /\ ops[k] = "DELETE" => ops[k + 1] = "INSERT"
          /\ ops[k] \in {"INSERT", "UPDATE"} => ops[k + 1] # "INSERT"

\* C18 (per-task lifecycle of the log): after every step that changes the
\* log (it is empty at the start), for every task_id, the operations of its records in history_id order match
\* (INSERT UPDATE* DELETE)* (INSERT UPDATE*)? ; and the record appended
\* when restore_task_version recreates a deleted task is an INSERT.
C18_Lifecycle ==
    [][ /\ tasks_history' # tasks_history =>
              \A id \in LoggedIds(tasks_history') :
                 Lifecycle(OpsOf(tasks_history', id))
        /\ \A hid \in HistoryIds :
              ( /\ last'.call = "restore_task_version"
                /\ last'.msg = "restored"
                /\ HistoryIndex(tasks_history, hid) # {}
                /\ HistoryRecord(tasks_history, hid).task_id
                      \notin DOMAIN tasks
                /\ restore_task_version(hid) )
              => /\ AppendedOne
                 /\ Newest(tasks_history').operation = "INSERT"
      ]_vars

\* a task created at second 0 and deleted was recreated by a restore at
\* second 1: its records read INSERT, DELETE, INSERT
C18_Witness ==
    /\ last.call = "restore_task_version" /\ last.msg = "restored"
    /\ Len(tasks_history) = 3
    /\ OpsOf(tasks_history, tasks_history[1].task_id) =
          <<"INSERT", "DELETE", "INSERT">>
    /\ tasks_history[1].changed_at = 0
    /\ tasks_history[3].changed_at = 1

\* a step left every task other than id as it was (all columns), created
\* and removed no other task, and appended one record, of task id
OnlyTouched(id) ==
    /\ \A j \in (DOMAIN tasks \cup DOMAIN tasks') \ {id} :
          /\ j \in DOMAIN tasks /\ j \in DOMAIN tasks'
          /\ tasks'[j] = tasks[j]
    /\ AppendedOne
    /\ Newest(tasks_history').task_id = id

\* C19 (cross-entity frame): a successful update_task, complete_task or
\* delete_task of id, and a successful restore_task_version of a record
\* with task_id id, leaves every other task with all its fields, creates
\* and removes no other task, and appends a single record, of task id.
C19_OthersUntouched ==
    [][ /\ \A id \in TaskIds :
             ( /\ last'.ret = True
               /\ \/ /\ last'.call = "update_task"
                     /\ \E t \in EditTitles, d \in EditDescriptions,
                           s \in EditStatuses \cup {"completed"},
                           p \in EditPriorities :
                           update_task(id, t, d, s, p)
                  \/ last'.call = "complete_task" /\ complete_task(id)
                  \/ last'.call = "delete_task" /\ delete_task(id) )
             => OnlyTouched(id)
        /\ \A hid \in HistoryIds :
             ( /\ last'.call = "restore_task_version"
               /\ last'.ret = True
               /\ HistoryIndex(tasks_history, hid) # {}
               /\ restore_task_version(hid) )
             => OnlyTouched(HistoryRecord(tasks_history, hid).task_id)
      ]_vars

\* two tasks were added, one of them was completed and then deleted; the
\* other is still there, pending, with the fields its INSERT record shows
C19_Witness ==
    /\ last.call = "delete_task" /\ last.ret = True
    /\ Len(tasks_history) = 4
    /\ tasks_history[1].operation = "INSERT"
    /\ tasks_history[2].operation = "INSERT"
    /\ tasks_history[3].operation = "UPDATE"
    /\ tasks_history[3].status = "completed"
    /\ tasks_history[4].operation = "DELETE"
    /\ tasks_history[4].task_id = tasks_history[3].task_id
    /\ \E k \in {1, 2} :
          /\ tasks_history[k].task_id # tasks_history[4].task_id
          /\ DOMAIN tasks = {tasks_history[k].task_id}
          /\ Snapshot(tasks[tasks_history[k].task_id]) = Milk("pending")

\* the state a successful restore_task_version(hid) leaves: the task of the
\* record is live with the record's four fields, and the newest record of
\* the log is one of that task with the same four fields
Restored(hid) ==
    /\ last = Result("restore_task_version", "restored", True)
    /\ HistoryIndex(tasks_history, hid) # {}
    /\ LET r == HistoryRecord(tasks_history, hid)
       IN /\ r.task_id \in DOMAIN tasks
          /\ Snapshot(tasks[r.task_id]) = Snapshot(r)
          /\ Newest(tasks_history).task_id = r.task_id
          /\ Snapshot(Newest(tasks_history)) = Snapshot(r)

\* C20 (restore idempotence on the store): for every history_id in the
\* log, a successful restore_task_version(hid) appends one record and
\* leaves the state described by Restored(hid); a second call right after
\* it leaves title, description, status and priority of the task as the
\* first call left them and appends exactly one record, an UPDATE of that
\* task whose four fields are those of the restored record.
C20_RestoreIdempotent ==
    [][ \A hid \in 1..(ScenarioHist + 1) :
          ( /\ last'.call = "restore_task_version"
            /\ HistoryIndex(tasks_history, hid) # {}
            /\ restore_task_version(hid) )
          => LET r == HistoryRecord(tasks_history, hid)
             IN /\ AppendedOne
                /\ Restored(hid)'
                /\ Restored(hid) =>
                      /\ Snapshot(tasks'[r.task_id]) =
                            Snapshot(tasks[r.task_id])
                      /\ Newest(tasks_history').operation = "UPDATE"
                      /\ Newest(tasks_history').task_id = r.task_id
                      /\ Snapshot(Newest(tasks_history')) = Snapshot(r)
      ]_vars

\* a completed task was restored to its first version twice in a row: two
\* UPDATE records with the fields of the INSERT record end the log
C20_Witness ==
    /\ Restored(1)
    /\ Len(tasks_history) = 4
    /\ tasks_history[1].operation = "INSERT"
    /\ Snapshot(tasks_history[1]) = Milk("pending")
    /\ tasks_history[2].operation = "UPDATE"
    /\ Snapshot(tasks_history[2]) = Milk("completed")
    /\ tasks_history[3].operation = "UPDATE"
    /\ Snapshot(tasks_history[3]) = Milk("pending")
    /\ tasks_history[4].operation = "UPDATE"
    /\ Snapshot(tasks_history[4]) = Milk("pending")
    /\ \A i \in 1..4 : tasks_history[i].task_id = 1

====
